---- MODULE Spec2Model ----
(***************************************************************************)
(* Employee directory: the data-access wrapper EmployeeService and the      *)
(* EmployeeModal form of src/services/api/employeeService.js.               *)
(*                                                                         *)
(* JavaScript values are records [t, s, n]: undefined, a string (a tuple    *)
(* of characters, an opaque word counting as one), an integer, or NaN.      *)
(* A service call                                                           *)
(* is split at its single await: the Call step runs the handler up to the   *)
(* store request, the Settle step runs the rest on the store's outcome.     *)
(* The variables result and ui hold what the latest step returned, showed   *)
(* and called.                                                             *)
(***************************************************************************)
EXTENDS Integers, Sequences, FiniteSets, TLC

VARIABLES
    sdk,          \* window.ApperSDK is present
    apperClient,  \* this.apperClient is a client (TRUE) or null (FALSE)
    pending,      \* store requests in flight, each with its call's frame
    result,       \* what the service call run by the latest step did
    ui,           \* what the form handler run by the latest step did
    isOpen,       \* prop isOpen of EmployeeModal
    employee,     \* prop employee of EmployeeModal (Null or a store record)
    formData,     \* state formData of EmployeeModal
    errors,       \* state errors of EmployeeModal
    loading       \* state loading of EmployeeModal

vars == <<sdk, apperClient, pending, result, ui, isOpen, employee, formData, errors, loading>>

(***************************************************************************)
(* Bounds                                                                  *)
(***************************************************************************)
MaxNameLen == 3
MaxDeptLen == 2
MaxEmailLen == 5
MaxResults == 2
MaxSaved == 1
MaxPending == 2

(***************************************************************************)
(* JavaScript values                                                       *)
(***************************************************************************)
Undef == [t |-> "undef", s |-> <<>>, n |-> 0]
NaN == [t |-> "nan", s |-> <<>>, n |-> 0]
Str(x) == [t |-> "str", s |-> x, n |-> 0]
Num(k) == [t |-> "num", s |-> <<>>, n |-> k]

\* ToBoolean: undefined, "", 0 and NaN are falsy
Truthy(v) ==
    CASE v.t = "str" -> v.s # <<>>
      [] v.t = "num" -> v.n # 0
      [] OTHER -> FALSE

\* a || b
Or(a, b) == IF Truthy(a) THEN a ELSE b

RECURSIVE StringsUpTo(_, _)
StringsUpTo(alphabet, k) ==
    IF k = 0 THEN {<<>>}
    ELSE LET shorter == StringsUpTo(alphabet, k - 1)
         IN  shorter \cup {Append(x, c) : x \in shorter, c \in alphabet}

IsSpace(c) == c = " "

\* String.prototype.trim
RECURSIVE TrimStart(_)
TrimStart(x) ==
    IF x # <<>> /\ IsSpace(Head(x)) THEN TrimStart(Tail(x)) ELSE x

RECURSIVE TrimEnd(_)
TrimEnd(x) ==
    IF x # <<>> /\ IsSpace(x[Len(x)]) THEN TrimEnd(SubSeq(x, 1, Len(x) - 1)) ELSE x

Trim(x) == TrimEnd(TrimStart(x))

\* String.prototype.split(' '): cut at every single space, keep empty pieces
RECURSIVE Split(_)
Split(x) ==
    IF \E i \in 1..Len(x) : x[i] = " "
    THEN LET i == CHOOSE j \in 1..Len(x) : x[j] = " " /\ \A k \in 1..(j - 1) : x[k] # " "
         IN  <<SubSeq(x, 1, i - 1)>> \o Split(SubSeq(x, i + 1, Len(x)))
    ELSE <<x>>

\* Array.prototype.join(' ')
RECURSIVE Join(_)
Join(parts) ==
    IF parts = <<>> THEN <<>>
    ELSE IF Len(parts) = 1 THEN parts[1]
    ELSE parts[1] \o <<" ">> \o Join(Tail(parts))

\* `${a || ''} ${b || ''}`.trim() for string-or-undefined a and b
NameOf(a, b) == Str(Trim(Or(a, Str(<<>>)).s \o <<" ">> \o Or(b, Str(<<>>)).s))

DigitValue(c) ==
    CASE c = "0" -> 0 [] c = "1" -> 1 [] c = "2" -> 2 [] c = "3" -> 3 [] c = "4" -> 4
      [] c = "5" -> 5 [] c = "6" -> 6 [] c = "7" -> 7 [] c = "8" -> 8 [] c = "9" -> 9
      [] OTHER -> -1

IsDigit(c) == DigitValue(c) >= 0

RECURSIVE DigitPrefix(_)
DigitPrefix(x) ==
    IF x # <<>> /\ IsDigit(Head(x)) THEN <<Head(x)>> \o DigitPrefix(Tail(x)) ELSE <<>>

RECURSIVE DigitsValue(_)
DigitsValue(d) ==
    IF d = <<>> THEN 0 ELSE 10 * DigitsValue(SubSeq(d, 1, Len(d) - 1)) + DigitValue(d[Len(d)])

\* parseInt of a string: leading white space, an optional sign, then the
\* longest run of decimal digits; NaN when there is no digit
ParseIntStr(x) ==
    LET body == TrimStart(x)
        neg == body # <<>> /\ Head(body) = "-"
        signed == body # <<>> /\ Head(body) \in {"-", "+"}
        digits == DigitPrefix(IF signed THEN Tail(body) ELSE body)
    IN  IF digits = <<>> THEN NaN
        ELSE Num(IF neg THEN 0 - DigitsValue(digits) ELSE DigitsValue(digits))

\* parseInt(v): an integer number converts to its own digits
ParseInt(v) ==
    CASE v.t = "str" -> ParseIntStr(v.s)
      [] v.t = "num" -> v
      [] OTHER -> NaN

(***************************************************************************)
(* The record store as the service consumes it                             *)
(***************************************************************************)
Ids == {1, 2}

\* one entry of response.results; a failed entry may carry a message and
\* a list of field errors
ResultEntry ==
    [success : {TRUE}, data : {"rec1", "rec2"}, message : {FALSE}, errors : {0}]
    \cup [success : {FALSE}, data : {"undefined"}, message : BOOLEAN, errors : {0, 1}]

RECURSIVE SeqsUpTo(_, _)
SeqsUpTo(S, k) ==
    IF k = 0 THEN {<<>>}
    ELSE LET shorter == SeqsUpTo(S, k - 1)
         IN  shorter \cup {Append(x, e) : x \in shorter, e \in S}

NoResults == <<[success |-> FALSE, data |-> "absent", message |-> FALSE, errors |-> 0]>>

\* what the awaited store call does: it throws (an error carrying
\* response.data.message, a plain Error, or a null/undefined rejection),
\* resolves to nothing, or resolves to a response envelope
Thrown ==
    [kind : {"throw"}, err : {"withResponseMessage", "plain", "nullish"},
     success : {FALSE}, data : {"undefined"}, results : {NoResults}]

Nothing ==
    [kind : {"nothing"}, err : {"none"}, success : {FALSE}, data : {"undefined"},
     results : {NoResults}]

ReadResponses ==
    [kind : {"response"}, err : {"none"}, success : BOOLEAN,
     data : {"undefined", "rec1", "rec2"}, results : {NoResults}]

\* results: absent, or up to k entries
WriteResponses(k) ==
    [kind : {"response"}, err : {"none"}, success : BOOLEAN, data : {"undefined"},
     results : {NoResults} \cup SeqsUpTo(ResultEntry, k)]

Outcome(op, k) ==
    Thrown \cup Nothing
    \cup (IF op \in {"getAll", "getById"} THEN ReadResponses ELSE WriteResponses(k))

NoOutcome ==
    [kind |-> "none", err |-> "none", success |-> FALSE, data |-> "undefined",
     results |-> NoResults]

\* the TypeError of this.apperClient.fetchRecords on a null client, and of
\* response.success on an undefined response
TypeError == "plain"

(***************************************************************************)
(* EmployeeService                                                         *)
(***************************************************************************)
\* initializeClient
initializeClient(present) == present

\* the catch block each operation ends with: error?.response?.data?.message
\* is read safely, error.message is not
Catch(err, sentinel) ==
    IF err = "nullish"
    THEN [kind |-> "throw", value |-> "TypeError", toasts |-> <<>>, logged |-> FALSE]
    ELSE [kind |-> "return", value |-> sentinel, toasts |-> <<>>, logged |-> TRUE]

Return(v, shown) == [kind |-> "return", value |-> v, toasts |-> shown, logged |-> shown # <<>>]

IsSuccess(e) == e.success
IsFailure(e) == ~e.success

\* failedRecords.forEach: one toast for each field error, then the message
RECURSIVE FailureToasts(_)
FailureToasts(failed) ==
    IF failed = <<>> THEN <<>>
    ELSE LET e == Head(failed)
         IN  [i \in 1..e.errors |-> "record.error"]
             \o (IF e.message THEN <<"record.message">> ELSE <<>>)
             \o FailureToasts(Tail(failed))

\* failedDeletions.forEach: the message only
RECURSIVE DeletionToasts(_)
DeletionToasts(failed) ==
    IF failed = <<>> THEN <<>>
    ELSE (IF Head(failed).message THEN <<"record.message">> ELSE <<>>)
         \o DeletionToasts(Tail(failed))

\* a variant that returns the first entry's data whether it succeeded or not
FirstOfAll(results) ==
    IF Len(results) > 0 /\ Len(SelectSeq(results, IsSuccess)) > 0
    THEN results[1].data
    ELSE "null"

\* successfulRecords.length > 0 ? successfulRecords[0].data : null
FirstSuccessful(results) ==
    LET successful == SelectSeq(results, IsSuccess)
    IN  IF Len(successful) > 0 THEN successful[1].data ELSE "null"

\* getAll after its await
getAll(o) ==
    CASE o.kind = "throw" -> Catch(o.err, "[]")
      [] o.kind = "nothing" -> Catch(TypeError, "[]")
      [] ~o.success -> Return("[]", <<"response.message">>)
      [] OTHER -> Return(IF o.data = "undefined" THEN "[]" ELSE o.data, <<>>)

\* getById after its await
getById(o) ==
    CASE o.kind = "throw" -> Catch(o.err, "null")
      [] o.kind = "nothing" -> Return("null", <<>>)
      [] o.data = "undefined" -> Return("null", <<>>)
      [] OTHER -> Return(o.data, <<>>)

\* create and update after their await
save(o) ==
    CASE o.kind = "throw" -> Catch(o.err, "null")
      [] o.kind = "nothing" -> Catch(TypeError, "null")
      [] ~o.success -> Return("null", <<"response.message">>)
      [] o.results # NoResults ->
            Return(FirstSuccessful(o.results),
                   FailureToasts(SelectSeq(o.results, IsFailure)))
      [] OTHER -> Return("null", <<>>)

create(o) == save(o)

update(o) == save(o)

\* delete after its await
delete(o) ==
    CASE o.kind = "throw" -> Catch(o.err, "false")
      [] o.kind = "nothing" -> Catch(TypeError, "false")
      [] ~o.success -> Return("false", <<"response.message">>)
      [] o.results # NoResults ->
            Return(IF Len(SelectSeq(o.results, IsSuccess)) > 0 THEN "true" ELSE "false",
                   DeletionToasts(SelectSeq(o.results, IsFailure)))
      [] OTHER -> Return("false", <<>>)

Run(op, o) ==
    CASE op = "getAll" -> getAll(o)
      [] op = "getById" -> getById(o)
      [] op = "create" -> create(o)
      [] op = "update" -> update(o)
      [] OTHER -> delete(o)

\* the operation on a null client: the store call itself is a TypeError
\* inside the try block
NoClient(op) ==
    Catch(TypeError, CASE op = "getAll" -> "[]" [] op = "delete" -> "false" [] OTHER -> "null")

(***************************************************************************)
(* The record create and update send                                       *)
(***************************************************************************)
S0 == Str(<<>>)

\* an employeeData object with no property set
NoData ==
    [fullName |-> Undef, first_name_c |-> Undef, last_name_c |-> Undef,
     email_c |-> Undef, email |-> Undef, phone_c |-> Undef, phone |-> Undef,
     role_c |-> Undef, role |-> Undef, department_id_c |-> Undef, departmentId |-> Undef,
     hire_date_c |-> Undef, hireDate |-> Undef, status_c |-> Undef, status |-> Undef,
     avatar_c |-> Undef, avatar |-> Undef]

\* employeeData.fullName?.split(' ')[0]
FirstPiece(fullName) ==
    IF fullName.t = "str" THEN Str(Split(fullName.s)[1]) ELSE Undef

\* employeeData.fullName?.split(' ').slice(1).join(' ')
RestPieces(fullName) ==
    IF fullName.t = "str" THEN Str(Join(Tail(Split(fullName.s)))) ELSE Undef

\* parseInt(employeeData.department_id_c || employeeData.departmentId || 0)
DepartmentId(d) == ParseInt(Or(Or(d.department_id_c, d.departmentId), Num(0)))

\* params.records[0] of create (id undefined) and of update
Record(id, d) ==
    [Id |-> id,
     Name |-> Or(d.fullName, NameOf(d.first_name_c, d.last_name_c)),
     first_name_c |-> Or(Or(d.first_name_c, FirstPiece(d.fullName)), S0),
     last_name_c |-> Or(Or(d.last_name_c, RestPieces(d.fullName)), S0),
     email_c |-> Or(Or(d.email_c, d.email), S0),
     phone_c |-> Or(Or(d.phone_c, d.phone), S0),
     role_c |-> Or(Or(d.role_c, d.role), S0),
     department_id_c |-> DepartmentId(d),
     hire_date_c |-> Or(Or(d.hire_date_c, d.hireDate), S0),
     status_c |-> Or(Or(d.status_c, d.status), Str(<<"active">>)),
     avatar_c |-> Or(Or(d.avatar_c, d.avatar), S0)]

NoRecord == Record(Undef, NoData)

\* the store calls one run of an operation makes: the single awaited call
StoreRequest(caller, op, id, d) ==
    <<[caller |-> caller, op |-> op, id |-> id, arg |-> d,
       record |-> IF op \in {"create", "update"}
                  THEN Record(IF op = "update" THEN id ELSE Undef, d)
                  ELSE NoRecord]>>

(***************************************************************************)
(* Arguments a caller of the service passes                                *)
(***************************************************************************)
NameStrings == StringsUpTo({"J", "D", " "}, MaxNameLen)
DeptStrings == StringsUpTo({"1", "2", "a", " ", "-"}, MaxDeptLen)
DeptRefs == {Undef, Num(0), Num(3)} \cup {Str(x) : x \in DeptStrings}
FewDeptRefs == {Undef, Str(<<"2">>)}
Given(x) == {Undef, S0, Str(<<x>>)}

\* the name fields vary
NameArgs ==
    {[NoData EXCEPT !.fullName = f, !.first_name_c = a, !.last_name_c = b] :
        f \in {Undef} \cup {Str(x) : x \in NameStrings},
        a \in {Undef, Str(<<"A">>)}, b \in {Undef, Str(<<"B">>)}}

\* the department reference varies
DeptArgs ==
    {[NoData EXCEPT !.department_id_c = a, !.departmentId = b] :
        a \in DeptRefs, b \in FewDeptRefs}
    \cup {[NoData EXCEPT !.department_id_c = a, !.departmentId = b] :
        a \in FewDeptRefs, b \in DeptRefs}

\* the optional fields vary, under either of their two names
OptionalArgs ==
    {[NoData EXCEPT !.email_c = e[1], !.email = e[2], !.phone_c = p[1], !.phone = p[2],
                    !.role_c = r[1], !.role = r[2]] :
        e \in Given("e") \X {Undef, Str(<<"f">>)},
        p \in Given("p") \X {Undef, Str(<<"q">>)},
        r \in {Undef, Str(<<"r">>)} \X {Undef, Str(<<"s">>)}}
    \cup
    {[NoData EXCEPT !.hire_date_c = h[1], !.hireDate = h[2], !.status_c = s[1],
                    !.status = s[2], !.avatar_c = v[1], !.avatar = v[2]] :
        h \in Given("h") \X {Undef, Str(<<"i">>)},
        s \in Given("inactive") \X {Undef, Str(<<"active">>)},
        v \in {Undef, Str(<<"v">>)} \X {Undef, Str(<<"w">>)}}

EmployeeArgs == NameArgs \cup DeptArgs \cup OptionalArgs

(***************************************************************************)
(* EmployeeModal: props, state and pure parts                              *)
(***************************************************************************)
\* the employee prop when no employee is being edited
Null ==
    [Id |-> Undef, Name |-> Undef, first_name_c |-> Undef, last_name_c |-> Undef,
     email_c |-> Undef, phone_c |-> Undef, role_c |-> Undef, department_id_c |-> Undef,
     hire_date_c |-> Undef, status_c |-> Undef]

ValidName == <<"J", " ", "D">>
ValidEmail == <<"a", "@", "a", ".", "a">>

\* records of the store the page may hand to the modal
Employees ==
    {[Id |-> Num(2), Name |-> Undef, first_name_c |-> Str(<<"J">>),
      last_name_c |-> Str(<<"D">>), email_c |-> Str(ValidEmail), phone_c |-> Str(<<"5">>),
      role_c |-> Str(<<"r">>), department_id_c |-> Num(3), hire_date_c |-> Str(<<"d">>),
      status_c |-> Undef]}

\* the initial formData, which handleClose restores
EmptyForm ==
    [fullName |-> S0, email |-> S0, phone |-> S0, role |-> S0, departmentId |-> S0,
     hireDate |-> S0, status |-> Str(<<"active">>)]

\* errors with no message; a field without a message reads as ""
NoErrors ==
    [fullName |-> "", email |-> "", phone |-> "", role |-> "", departmentId |-> "",
     hireDate |-> ""]

\* the effect on [employee]: the draft of an employee being edited
FromEmployee(e) ==
    [fullName |-> Or(e.Name, NameOf(e.first_name_c, e.last_name_c)),
     email |-> Or(e.email_c, S0),
     phone |-> Or(e.phone_c, S0),
     role |-> Or(e.role_c, S0),
     departmentId |-> Or(e.department_id_c, S0),
     hireDate |-> Or(e.hire_date_c, S0),
     status |-> Or(e.status_c, Str(<<"active">>))]

\* /^[^\s@]+@[^\s@]+\.[^\s@]+$/.test(x)
EmailFormat(x) ==
    \E i \in 2..Len(x) :
        /\ x[i] = "@"
        /\ \A k \in 1..Len(x) : k # i => ~IsSpace(x[k]) /\ x[k] # "@"
        /\ \E j \in (i + 2)..(Len(x) - 1) : x[j] = "."

\* !v.trim()
Blank(v) == Trim(v.s) = <<>>

\* a variant that tests the text fields without trim()
validateUntrimmed(f) ==
    [fullName |-> IF ~Truthy(f.fullName) THEN "Full name is required" ELSE "",
     email |-> IF Truthy(f.email) /\ ~EmailFormat(f.email.s)
               THEN "Please enter a valid email address"
               ELSE IF ~Truthy(f.email) THEN "Email is required" ELSE "",
     phone |-> IF ~Truthy(f.phone) THEN "Phone is required" ELSE "",
     role |-> IF ~Truthy(f.role) THEN "Role is required" ELSE "",
     departmentId |-> IF ~Truthy(f.departmentId) THEN "Department is required" ELSE "",
     hireDate |-> IF ~Truthy(f.hireDate) THEN "Hire date is required" ELSE ""]

\* newErrors of validateForm
validateForm(f) ==
    [fullName |-> IF Blank(f.fullName) THEN "Full name is required" ELSE "",
     email |-> IF Truthy(f.email) /\ ~EmailFormat(f.email.s)
               THEN "Please enter a valid email address"
               ELSE IF Blank(f.email) THEN "Email is required" ELSE "",
     phone |-> IF Blank(f.phone) THEN "Phone is required" ELSE "",
     role |-> IF Blank(f.role) THEN "Role is required" ELSE "",
     departmentId |-> IF ~Truthy(f.departmentId) THEN "Department is required" ELSE "",
     hireDate |-> IF ~Truthy(f.hireDate) THEN "Hire date is required" ELSE ""]

\* formData as the employeeData argument of create and update
AsEmployeeData(f) ==
    [NoData EXCEPT !.fullName = f.fullName, !.email = f.email, !.phone = f.phone,
                   !.role = f.role, !.departmentId = f.departmentId,
                   !.hireDate = f.hireDate, !.status = f.status]

\* a variant that never looks at the employee prop
AlwaysCreate(e) == <<[op |-> "create", id |-> Undef]>>

\* the service calls of one accepted handleSubmit
SubmitCalls(e) ==
    IF e # Null THEN <<[op |-> "update", id |-> e.Id]>> ELSE <<[op |-> "create", id |-> Undef]>>

\* a variant whose submit button is never disabled
AlwaysEnabled(busy) == TRUE

\* the submit button: disabled={loading}
SubmitEnabled(busy) == ~busy

\* what a field of the form can be changed to
FieldValues(name) ==
    CASE name = "fullName" -> {<<>>, ValidName}
      [] name = "email" -> {<<>>, ValidEmail}
      [] name = "phone" -> {<<>>, <<"5">>}
      [] name = "role" -> {<<>>, <<"r">>}
      [] name = "departmentId" -> {<<>>, <<"3">>}
      [] name = "hireDate" -> {<<>>, <<"d">>}
      [] OTHER -> {<<"active">>, <<"inactive">>}

FieldNames == {"fullName", "email", "phone", "role", "departmentId", "hireDate", "status"}

(***************************************************************************)
(* What a step returned, showed and called                                 *)
(***************************************************************************)
NoResult ==
    [op |-> "none", outcome |-> NoOutcome, kind |-> "none", value |-> "none",
     toasts |-> <<>>, requests |-> 0]

Awaiting(op, n) ==
    [op |-> op, outcome |-> NoOutcome, kind |-> "await", value |-> "none",
     toasts |-> <<>>, requests |-> n]

Finished(op, o, r) ==
    [op |-> op, outcome |-> o, kind |-> r.kind, value |-> r.value, toasts |-> r.toasts,
     requests |-> 0]

NoUi ==
    [handler |-> "none", accepted |-> FALSE, toast |-> "none", onSuccess |-> FALSE,
     onClose |-> FALSE, calls |-> <<>>]

Remove(q, i) == SubSeq(q, 1, i - 1) \o SubSeq(q, i + 1, Len(q))

(***************************************************************************)
(* Initial state: the module has been loaded, the modal is mounted closed  *)
(***************************************************************************)
Init ==
    /\ sdk \in BOOLEAN
    /\ apperClient = initializeClient(sdk)
    /\ pending = <<>>
    /\ result = NoResult
    /\ ui = NoUi
    /\ isOpen = FALSE
    /\ employee = Null
    /\ formData = EmptyForm
    /\ errors = NoErrors
    /\ loading = FALSE

formVars == <<isOpen, employee, formData, errors, loading>>

\* the SDK script finishes loading
LoadSDK ==
    /\ ~sdk
    /\ sdk' = TRUE
    /\ result' = NoResult
    /\ ui' = NoUi
    /\ UNCHANGED <<apperClient, pending, formVars>>

\* if (!this.apperClient) this.initializeClient()
Client == apperClient \/ initializeClient(sdk)

\* the requests of a list of service calls, in order
RECURSIVE Requests(_, _, _)
Requests(caller, calls, d) ==
    IF calls = <<>> THEN <<>>
    ELSE StoreRequest(caller, Head(calls).op, Head(calls).id, d)
         \o Requests(caller, Tail(calls), d)

\* the caller of an operation that ended goes on with what it returned
Resume ==
    /\ result.kind \in {"return", "throw"}
    /\ result' = NoResult
    /\ ui' = NoUi
    /\ UNCHANGED <<sdk, apperClient, pending, formVars>>

\* an operation called by the page, up to its await; the page makes one
\* call at a time, and none while the modal covers it
Call(op, id, d) ==
    /\ ~isOpen
    /\ pending = <<>>
    /\ result.kind \notin {"return", "throw"}
    /\ apperClient' = Client
    /\ IF Client
       THEN LET sent == StoreRequest("page", op, id, d)
            IN  /\ pending' = pending \o sent
                /\ result' = Awaiting(op, Len(sent))
       ELSE /\ pending' = pending
            /\ result' = Finished(op, NoOutcome, NoClient(op))
    /\ ui' = NoUi
    /\ UNCHANGED <<sdk, formVars>>

GetAll == Call("getAll", Undef, NoData)

GetById == \E id \in Ids : Call("getById", Num(id), NoData)

Create == \E d \in EmployeeArgs : Call("create", Undef, d)

Update == \E id \in Ids, d \in EmployeeArgs : Call("update", Num(id), d)

Delete == \E id \in Ids : Call("delete", Num(id), NoData)

\* the store settles request i with outcome o: the rest of the operation
\* runs, and for a call of handleSubmit the rest of handleSubmit after it
Settle(i, o) ==
    LET req == pending[i]
        r == Run(req.op, o)
    IN  /\ pending' = Remove(pending, i)
        /\ result' = Finished(req.op, o, r)
        /\ IF req.caller = "form"
           THEN /\ loading' = FALSE
                /\ IF r.kind = "return"
                   THEN /\ ui' = [handler |-> "afterAwait", accepted |-> TRUE,
                                  toast |-> IF req.op = "update"
                                            THEN "Employee updated successfully"
                                            ELSE "Employee created successfully",
                                  onSuccess |-> TRUE, onClose |-> TRUE, calls |-> <<>>]
                        /\ isOpen' = FALSE
                   ELSE /\ ui' = [handler |-> "afterAwait", accepted |-> TRUE,
                                  toast |-> "error", onSuccess |-> FALSE,
                                  onClose |-> FALSE, calls |-> <<>>]
                        /\ isOpen' = isOpen
                /\ UNCHANGED <<employee, formData, errors>>
           ELSE /\ ui' = NoUi
                /\ UNCHANGED formVars
        /\ UNCHANGED <<sdk, apperClient>>

StoreSettles(k) ==
    \E i \in 1..Len(pending) : \E o \in Outcome(pending[i].op, k) : Settle(i, o)

\* the page, between its own calls, opens the modal for a new employee
\* (Null) or for one to edit; the effect on [employee] runs when the prop
\* changed
Open(e) ==
    /\ ~isOpen
    /\ \A i \in 1..Len(pending) : pending[i].caller = "form"
    /\ isOpen' = TRUE
    /\ employee' = e
    /\ formData' = IF e # employee /\ e # Null THEN FromEmployee(e) ELSE formData
    /\ result' = NoResult
    /\ ui' = NoUi
    /\ UNCHANGED <<sdk, apperClient, pending, errors, loading>>

OpenModal == \E e \in Employees \cup {Null} : Open(e)

handleChange(name, value) ==
    /\ isOpen
    /\ formData' = [formData EXCEPT ![name] = Str(value)]
    /\ errors' = IF name \in DOMAIN errors /\ errors[name] # ""
                 THEN [errors EXCEPT ![name] = ""]
                 ELSE errors
    /\ result' = NoResult
    /\ ui' = NoUi
    /\ UNCHANGED <<sdk, apperClient, pending, isOpen, employee, loading>>

EditField == \E name \in FieldNames : \E value \in FieldValues(name) : handleChange(name, value)

handleSubmit ==
    /\ isOpen
    /\ SubmitEnabled(loading)
    /\ Len(pending) < MaxPending
    /\ errors' = validateForm(formData)
    /\ IF validateForm(formData) # NoErrors
       THEN /\ ui' = [NoUi EXCEPT !.handler = "handleSubmit"]
            /\ result' = NoResult
            /\ UNCHANGED <<apperClient, pending, isOpen, loading>>
       ELSE LET calls == SubmitCalls(employee)
                sent == Requests("form", calls, AsEmployeeData(formData))
            IN  /\ apperClient' = Client
                /\ IF Client
                   THEN /\ pending' = pending \o sent
                        /\ result' = Awaiting(calls[1].op, Len(sent))
                        /\ loading' = TRUE
                        /\ isOpen' = isOpen
                        /\ ui' = [handler |-> "handleSubmit", accepted |-> TRUE,
                                  toast |-> "none", onSuccess |-> FALSE,
                                  onClose |-> FALSE, calls |-> calls]
                   ELSE /\ pending' = pending
                        /\ result' = Finished(calls[1].op, NoOutcome, NoClient(calls[1].op))
                        /\ loading' = FALSE
                        /\ isOpen' = FALSE
                        /\ ui' = [handler |-> "handleSubmit", accepted |-> TRUE,
                                  toast |-> IF calls[1].op = "update"
                                            THEN "Employee updated successfully"
                                            ELSE "Employee created successfully",
                                  onSuccess |-> TRUE, onClose |-> TRUE, calls |-> calls]
    /\ UNCHANGED <<sdk, employee, formData>>

handleClose ==
    /\ isOpen
    /\ formData' = EmptyForm
    /\ errors' = NoErrors
    /\ isOpen' = FALSE
    /\ result' = NoResult
    /\ ui' = [NoUi EXCEPT !.handler = "handleClose", !.onClose = TRUE]
    /\ UNCHANGED <<sdk, apperClient, pending, employee, loading>>

(***************************************************************************)
(* Specifications                                                          *)
(***************************************************************************)
\* the service called directly, with every argument shape
ServiceNext ==
    \/ LoadSDK
    \/ Resume
    \/ GetAll
    \/ GetById
    \/ Create
    \/ Update
    \/ Delete
    \/ StoreSettles(MaxResults)

ServiceSpec == Init /\ [][ServiceNext]_vars

\* the page and its modal, which saves one record at a time: the store
\* answers with at most MaxSaved result entries
Next ==
    \/ Resume
    \/ GetAll
    \/ GetById
    \/ Delete
    \/ StoreSettles(MaxSaved)
    \/ OpenModal
    \/ EditField
    \/ handleSubmit
    \/ handleClose

Spec == Init /\ [][Next]_vars

\* the same, the store answering every request it is sent
LiveSpec == Spec /\ WF_vars(StoreSettles(MaxSaved))

\* drafts the user can have typed when the form is submitted
EmailStrings == StringsUpTo({"a", "@", ".", " "}, MaxEmailLen)

ValidForm ==
    [fullName |-> Str(ValidName), email |-> Str(ValidEmail), phone |-> Str(<<"5">>),
     role |-> Str(<<"r">>), departmentId |-> Str(<<"3">>), hireDate |-> Str(<<"d">>),
     status |-> Str(<<"active">>)]

Drafts ==
    [fullName : {S0, Str(<<" ">>), Str(ValidName)},
     email : {S0, Str(<<" ">>), Str(<<"a">>), Str(ValidEmail)},
     phone : {S0, Str(<<" ">>), Str(<<"5">>)},
     role : {S0, Str(<<" ">>), Str(<<"r">>)},
     departmentId : {S0, Str(<<"3">>), Num(3)},
     hireDate : {S0, Str(<<"d">>)},
     status : {Str(<<"active">>)}]
    \cup {[ValidForm EXCEPT !.email = Str(x)] : x \in EmailStrings}
    \cup {[ValidForm EXCEPT !.fullName = Str(x)] : x \in NameStrings}

SubmitInit ==
    /\ sdk \in BOOLEAN
    /\ apperClient = initializeClient(sdk)
    /\ pending = <<>>
    /\ result = NoResult
    /\ ui = NoUi
    /\ isOpen = TRUE
    /\ employee \in Employees \cup {Null}
    /\ formData \in Drafts
    /\ errors = NoErrors
    /\ loading = FALSE

SubmitNext ==
    \/ handleSubmit
    \/ StoreSettles(MaxSaved)

\* one submit of an open form holding any draft
SubmitSpec == SubmitInit /\ [][SubmitNext]_vars

(***************************************************************************)
(* Properties                                                              *)
(***************************************************************************)
\* the latest step ran a service operation to its end
Ended == result.kind \in {"return", "throw"}

Sentinel(op) ==
    CASE op = "getAll" -> "[]" [] op = "delete" -> "false" [] OTHER -> "null"

\* the store behaviours of C1: no client, a throwing call, no response, or
\* a response with success false
StoreFailed ==
    \/ result.outcome.kind \in {"none", "throw", "nothing"}
    \/ result.outcome.kind = "response" /\ ~result.outcome.success

\* C1: whatever way the store fails (no SDK client, the store call throws,
\* it returns nothing, or it returns success = false), the operation
\* returns to its caller without an exception, and returns its sentinel:
\* [] for getAll, null for getById, create and update, false for delete.
C1_SentinelOnFailure ==
    (Ended /\ StoreFailed) => (result.kind = "return" /\ result.value = Sentinel(result.op))

HasFailedEntry(o) ==
    /\ o.results # NoResults
    /\ \E i \in 1..Len(o.results) : ~o.results[i].success

\* C2: every failure of an operation (the store reports success = false, a
\* result entry has success = false, or the store call throws) shows at
\* least one error toast before the operation ends.
C2_ToastOnFailure ==
    (/\ Ended
     /\ \/ result.outcome.kind = "throw"
        \/ result.outcome.kind = "response" /\ ~result.outcome.success
        \/ /\ result.outcome.kind = "response"
           /\ result.op \in {"create", "update", "delete"}
           /\ HasFailedEntry(result.outcome))
    => Len(result.toasts) >= 1

\* empty or made of white space only
WhiteOnly(x) == \A i \in 1..Len(x) : x[i] = " "

Plain(x) == x # <<>> /\ \A i \in 1..Len(x) : x[i] \notin {" ", "@"}

\* local@domain.tld
LocalAtDomainTld(x) ==
    \E i \in 1..Len(x), j \in 1..Len(x) :
        /\ i < j
        /\ x[i] = "@"
        /\ x[j] = "."
        /\ Plain(SubSeq(x, 1, i - 1))
        /\ Plain(SubSeq(x, i + 1, j - 1))
        /\ Plain(SubSeq(x, j + 1, Len(x)))

\* the fields of a draft that C3 calls offending
Offending(f) ==
    {n \in {"fullName", "email", "phone", "role"} : WhiteOnly(f[n].s)}
    \cup {n \in {"departmentId", "hireDate"} : f[n] \in {S0, Undef}}
    \cup {n \in {"email"} : ~LocalAtDomainTld(f[n].s)}

\* C3: when handleSubmit runs on a draft with an offending field (full
\* name, email, phone or role empty or white space, department or hire date
\* empty, email not of the form local@domain.tld), it calls neither create
\* nor update, sends nothing to the store, leaves loading false and records
\* an error message for each offending field.
C3_InvalidDraftNotSent ==
    (ui.handler = "handleSubmit" /\ Offending(formData) # {})
    => /\ ~ui.accepted
       /\ ui.calls = <<>>
       /\ result.requests = 0
       /\ pending = <<>>
       /\ ~loading
       /\ \A n \in Offending(formData) : errors[n] # ""

\* a draft without "@" in its email was submitted and refused
C3_Witness ==
    /\ ui.handler = "handleSubmit"
    /\ ~ui.accepted
    /\ formData.email.s = <<"a", ".", "a">>
    /\ errors.email = "Please enter a valid email address"
    /\ errors.fullName = ""

\* the words of a name: its maximal runs of non-space characters
RECURSIVE Words(_)
Words(x) ==
    IF x = <<>> THEN <<>>
    ELSE IF Head(x) = " " THEN Words(Tail(x))
    ELSE LET n == CHOOSE k \in 1..Len(x) :
                      /\ \A i \in 1..k : x[i] # " "
                      /\ (k = Len(x) \/ x[k + 1] = " ")
         IN  <<SubSeq(x, 1, n)>> \o Words(SubSeq(x, n + 1, Len(x)))

SaveRequests == {i \in 1..Len(pending) : pending[i].op \in {"create", "update"}}

\* C4: for a full name that passes the form's validation and no explicit
\* first_name_c / last_name_c, the record sent has Name = fullName,
\* first_name_c = the first word and last_name_c = the other words joined
\* by single spaces, also for names with leading or repeated spaces.
C4_NameSplitIntoWords ==
    \A i \in SaveRequests :
        LET d == pending[i].arg
            rec == pending[i].record
        IN  (/\ d.fullName.t = "str"
             /\ ~WhiteOnly(d.fullName.s)
             /\ d.first_name_c = Undef
             /\ d.last_name_c = Undef)
            => /\ rec.Name = d.fullName
               /\ rec.first_name_c = Str(Words(d.fullName.s)[1])
               /\ rec.last_name_c = Str(Join(Tail(Words(d.fullName.s))))

\* the data of the first successful entry of a response, or null
Expected(o) ==
    IF o.success /\ o.results # NoResults /\ \E i \in 1..Len(o.results) : o.results[i].success
    THEN LET first == CHOOSE i \in 1..Len(o.results) :
                          /\ o.results[i].success
                          /\ \A j \in 1..(i - 1) : ~o.results[j].success
         IN  o.results[first].data
    ELSE "null"

\* C5: when the store answers a create or an update, the operation returns
\* the data of the first result entry with success = true if the response
\* has success = true and such an entry, and null in every other case.
C5_FirstSuccessfulRecord ==
    (/\ Ended
     /\ result.op \in {"create", "update"}
     /\ result.outcome.kind = "response")
    => (result.kind = "return" /\ result.value = Expected(result.outcome))

\* a failed entry came first and the record of the second was returned
C5_Witness ==
    /\ Ended
    /\ result.op = "create"
    /\ result.outcome.kind = "response"
    /\ result.outcome.results # NoResults
    /\ Len(result.outcome.results) = 2
    /\ ~result.outcome.results[1].success
    /\ result.value = "rec2"

\* C6: whenever the modal is closed, by the close or cancel button or by a
\* submit that succeeded, the draft is the empty default and errors is
\* empty.
C6_DraftDiscardedWhenClosed ==
    ~isOpen => (formData = EmptyForm /\ errors = NoErrors)

Missing(v) == v \in {Undef, S0}

\* C7: the record sent has an integer department_id_c, 0 when the reference
\* is missing or empty; a missing status is sent as "active", every other
\* missing optional field as the empty string.
C7_DepartmentIsInteger ==
    \A i \in SaveRequests :
        LET d == pending[i].arg
            rec == pending[i].record
        IN  /\ rec.department_id_c.t = "num"
            /\ (Missing(d.department_id_c) /\ Missing(d.departmentId))
               => rec.department_id_c = Num(0)
            /\ (Missing(d.status_c) /\ Missing(d.status)) => rec.status_c = Str(<<"active">>)
            /\ (Missing(d.email_c) /\ Missing(d.email)) => rec.email_c = S0
            /\ (Missing(d.phone_c) /\ Missing(d.phone)) => rec.phone_c = S0
            /\ (Missing(d.role_c) /\ Missing(d.role)) => rec.role_c = S0
            /\ (Missing(d.hire_date_c) /\ Missing(d.hireDate)) => rec.hire_date_c = S0
            /\ (Missing(d.avatar_c) /\ Missing(d.avatar)) => rec.avatar_c = S0

\* C8: no step sends more than one request to the store and a step that
\* ends an operation sends none (nothing is retried); an accepted submit
\* calls the service exactly once: create when no employee is edited, else
\* update with the Id of the edited employee, and what it sends to the
\* store is that one request.
C8_OneRequestPerCall ==
    /\ result.requests <= 1
    /\ Ended => result.requests = 0
    /\ (ui.handler = "handleSubmit" /\ ui.accepted)
       => /\ Len(ui.calls) = 1
          /\ ui.calls[1] = IF employee = Null
                           THEN [op |-> "create", id |-> Undef]
                           ELSE [op |-> "update", id |-> employee.Id]
          /\ result.op = ui.calls[1].op
          /\ result.kind = "await"
             => /\ result.requests = 1
                /\ pending[Len(pending)].op = ui.calls[1].op
                /\ pending[Len(pending)].record.Id = ui.calls[1].id

\* an accepted submit of an edited employee has its update in flight
C8_Witness ==
    /\ ui.handler = "handleSubmit"
    /\ ui.accepted
    /\ employee # Null
    /\ Len(pending) = 1
    /\ pending[1].op = "update"
    /\ pending[1].record.Id = Num(2)

\* C9: the success toast, onSuccess and the closing onClose of handleSubmit
\* happen only when the awaited create or update returned a saved record.
C9_SuccessOnlyWhenSaved ==
    (\/ ui.toast \in {"Employee created successfully", "Employee updated successfully"}
     \/ ui.onSuccess)
    => (result.kind = "return" /\ result.value \in {"rec1", "rec2"})

FormRequests == {i \in 1..Len(pending) : pending[i].caller = "form"}

\* C10: loading is true exactly while a save request of the form is in
\* flight, at most one such request is in flight at any time, and loading
\* always returns to false once the store answers.
C10_LoadingTracksSave ==
    /\ [](loading <=> FormRequests # {})
    /\ [](Cardinality(FormRequests) <= 1)
    /\ (loading ~> ~loading)

\* a save is in flight and the form shows it
C10_Witness ==
    /\ loading
    /\ Cardinality(FormRequests) = 1
    /\ isOpen

====
